---- MODULE Spec2Model ----
(***************************************************************************)
(* Model of the autopilot VS Code extension (src/src/extension.ts).        *)
(*                                                                         *)
(* Two specifications share the module:                                    *)
(*   Spec       the autopilot.analyzeProject command handler and the async *)
(*              progress task it starts (scanner, key files, remote        *)
(*              service, structurer, presenter), for concurrent runs;      *)
(*   ParseSpec  parseAiResponse stepped section by section over bounded    *)
(*              input strings.                                             *)
(*                                                                         *)
(* A JavaScript string is modelled as a sequence of one-character strings, *)
(* so that split, toLowerCase, includes, slice, join, trim and replace are *)
(* computed the way the runtime computes them.                             *)
(***************************************************************************)
EXTENDS Integers, Sequences, FiniteSets, TLC

VARIABLES
    rawText,    \* parseAiResponse: its argument
    sections,   \* parseAiResponse: rawText.split('\n\n')
    sidx,       \* parseAiResponse: number of sections forEach has visited
    result,     \* parseAiResponse: the record under construction
    ppc,        \* parseAiResponse: "call", "loop", "returned", "threw"
    apiKey,     \* analyzeWithDeepSeek: the credential of line 101
    run         \* one record per invocation of autopilot.analyzeProject

vars == <<rawText, sections, sidx, result, ppc, apiKey, run>>
parseVars == <<rawText, sections, sidx, result, ppc>>
cmdVars == <<apiKey, run>>

(***************************************************************************)
(* Bounds                                                                  *)
(***************************************************************************)
MaxLines == 4   \* lines of a generated reply
MaxRuns == 2    \* invocations of the command that may overlap

(***************************************************************************)
(* String primitives of the runtime                                        *)
(***************************************************************************)
NL == "\n"
\* the value undefined: no string, since a string holds single characters
Undefined == <<"undefined">>

UpperChars ==
    <<"A","B","C","D","E","F","G","H","I","J","K","L","M",
      "N","O","P","Q","R","S","T","U","V","W","X","Y","Z">>
LowerChars ==
    <<"a","b","c","d","e","f","g","h","i","j","k","l","m",
      "n","o","p","q","r","s","t","u","v","w","x","y","z">>

ToLowerChar(c) ==
    IF \E i \in DOMAIN UpperChars : UpperChars[i] = c
    THEN LowerChars[CHOOSE i \in DOMAIN UpperChars : UpperChars[i] = c]
    ELSE c

toLowerCase(s) ==
    [i \in 1..Len(s) |-> ToLowerChar(s[i])]

\* String.prototype.indexOf, 1-based; 0 when sep does not occur in s
indexOf(s, sep) ==
    LET hits == {i \in 1..(Len(s) - Len(sep) + 1) :
                    SubSeq(s, i, i + Len(sep) - 1) = sep}
    IN  IF hits = {} THEN 0
        ELSE CHOOSE i \in hits : \A j \in hits : i <= j

includes(s, sep) ==
    indexOf(s, sep) # 0

\* String.prototype.split with a non-empty separator: left to right, the
\* pieces between non-overlapping occurrences, empty pieces kept
RECURSIVE split(_, _)
split(s, sep) ==
    LET i == indexOf(s, sep)
    IN  IF i = 0 THEN <<s>>
        ELSE <<SubSeq(s, 1, i - 1)>>
                \o split(SubSeq(s, i + Len(sep), Len(s)), sep)

\* Array.prototype.slice(1)
slice1(a) ==
    SubSeq(a, 2, Len(a))

\* Array.prototype.join
RECURSIVE join(_, _)
join(a, sep) ==
    IF Len(a) = 0 THEN <<>>
    ELSE IF Len(a) = 1 THEN a[1]
    ELSE a[1] \o sep \o join(Tail(a), sep)

IsWhiteSpace(c) ==
    c \in {" ", "\t", "\n", "\r"}

\* String.prototype.trim
trim(s) ==
    LET keep == {i \in 1..Len(s) : ~IsWhiteSpace(s[i])}
    IN  IF keep = {} THEN <<>>
        ELSE SubSeq(s, CHOOSE i \in keep : \A j \in keep : i <= j,
                       CHOOSE i \in keep : \A j \in keep : i >= j)

\* line.replace(/^- /, '')
replaceMarker(line) ==
    IF Len(line) >= 2 /\ SubSeq(line, 1, 2) = <<"-", " ">>
    THEN SubSeq(line, 3, Len(line))
    ELSE line

\* lines.slice(1).map(line => line.replace(/^- /, '').trim())
stripLines(lines) ==
    [i \in 1..Len(slice1(lines)) |-> trim(replaceMarker(slice1(lines)[i]))]

(***************************************************************************)
(* parseAiResponse                                                         *)
(***************************************************************************)
KwProjectName ==
    <<"p","r","o","j","e","c","t"," ","n","a","m","e">>
KwTechStack ==
    <<"t","e","c","h"," ","s","t","a","c","k">>
KwProjectPurpose ==
    <<"p","r","o","j","e","c","t"," ","p","u","r","p","o","s","e">>
KwProjectIdeas ==
    <<"p","r","o","j","e","c","t"," ","i","d","e","a","s">>
KwFolderStructure ==
    <<"f","o","l","d","e","r"," ","s","t","r","u","c","t","u","r","e">>
KwSummary ==
    <<"s","u","m","m","a","r","y">>

Keywords ==
    {KwProjectName, KwTechStack, KwProjectPurpose, KwProjectIdeas,
     KwFolderStructure, KwSummary}

Fields ==
    {"projectName", "techStack", "projectIdeas", "folderStructureAnalysis",
     "summary"}

\* the initial value of result
ProjectAnalysis ==
    [projectName |-> <<>>, techStack |-> <<>>, projectIdeas |-> <<>>,
     folderStructureAnalysis |-> <<>>, summary |-> <<>>]

TypeError == [threw |-> "TypeError"]

\* lines[1] in place of lines[0]
headerLineSecond(lines) ==
    IF Len(lines) >= 2 THEN lines[2] ELSE Undefined

\* lines[0]; reading past the end of an array yields undefined
headerLine(lines) ==
    IF Len(lines) >= 1 THEN lines[1] ELSE Undefined

\* the whole section in place of its first line
headerWholeSection(lines) ==
    toLowerCase(join(lines, <<NL>>))

\* the text the keywords are looked up in
header(lines) ==
    toLowerCase(headerLine(lines))

\* the chain tested in the reverse order
branchLastMatch(h) ==
    IF includes(h, KwSummary) THEN "summary"
    ELSE IF includes(h, KwFolderStructure) THEN "folderStructureAnalysis"
    ELSE IF includes(h, KwProjectPurpose) \/ includes(h, KwProjectIdeas)
        THEN "projectIdeas"
    ELSE IF includes(h, KwTechStack) THEN "techStack"
    ELSE IF includes(h, KwProjectName) THEN "projectName"
    ELSE "none"

\* the chain with a final else in place of the last else-if
branchElseSummary(h) ==
    IF includes(h, KwProjectName) THEN "projectName"
    ELSE IF includes(h, KwTechStack) THEN "techStack"
    ELSE IF includes(h, KwProjectPurpose) \/ includes(h, KwProjectIdeas)
        THEN "projectIdeas"
    ELSE IF includes(h, KwFolderStructure) THEN "folderStructureAnalysis"
    ELSE "summary"

\* the branch of the if / else-if chain a header takes
branch(h) ==
    IF includes(h, KwProjectName) THEN "projectName"
    ELSE IF includes(h, KwTechStack) THEN "techStack"
    ELSE IF includes(h, KwProjectPurpose) \/ includes(h, KwProjectIdeas)
        THEN "projectIdeas"
    ELSE IF includes(h, KwFolderStructure) THEN "folderStructureAnalysis"
    ELSE IF includes(h, KwSummary) THEN "summary"
    ELSE "none"

\* the value a branch assigns, from the lines of the section
fieldValue(f, lines) ==
    CASE f = "projectName" -> trim(join(slice1(lines), <<" ">>))
      [] f = "techStack" -> stripLines(lines)
      [] f = "projectIdeas" -> stripLines(lines)
      [] f = "folderStructureAnalysis" -> join(slice1(lines), <<NL>>)
      [] f = "summary" -> join(slice1(lines), <<NL>>)

\* an assignment that appends to what the field already holds
assignAccumulate(r, f, v) ==
    [r EXCEPT ![f] = IF @ = <<>> \/ v = <<>> THEN @ \o v
                     ELSE IF f \in {"techStack", "projectIdeas"} THEN @ \o v
                     ELSE @ \o <<NL>> \o v]

\* result.<f> = v
assign(r, f, v) ==
    [r EXCEPT ![f] = v]

\* the body of the forEach callback, applied to one section
forEachSection(r, section) ==
    LET lines == split(section, <<NL>>)
    IN  IF headerLine(lines) = Undefined THEN TypeError
        ELSE LET f == branch(header(lines))
             IN  IF f = "none" THEN r
                 ELSE assign(r, f, fieldValue(f, lines))

\* the forEach loop over sections a[from..], starting from record r
RECURSIVE forEach(_, _, _)
forEach(r, a, from) ==
    IF r = TypeError \/ from > Len(a) THEN r
    ELSE forEach(forEachSection(r, a[from]), a, from + 1)

splitSections(text) ==
    split(text, <<NL, NL>>)

parseAiResponse(text) ==
    forEach(ProjectAnalysis, splitSections(text), 1)

(***************************************************************************)
(* Input strings of ParseSpec: every reply of 1..MaxLines lines drawn from *)
(* Lines and joined with line breaks (an empty line makes a blank-line     *)
(* delimiter), the example replies of the specification, and a reply with  *)
(* an unrecognised section after a recognised one.                         *)
(***************************************************************************)
LnProjectName ==
    <<"P","r","o","j","e","c","t"," ","N","a","m","e">>
LnTechStack ==
    <<"T","e","c","h"," ","S","t","a","c","k",":">>
LnProjectPurpose ==
    <<"P","R","O","J","E","C","T"," ","P","U","R","P","O","S","E">>
LnFolderStructure ==
    <<"F","o","l","d","e","r"," ","S","t","r","u","c","t","u","r","e">>
LnSummary ==
    <<"S","u","m","m","a","r","y">>
LnSummaryOfProjectName ==
    <<"S","u","m","m","a","r","y"," ","o","f"," ","p","r","o","j","e","c",
      "t"," ","n","a","m","e">>
LnGo ==
    <<"-"," ","G","o"," ">>
ExProjectNameFoo ==
    <<"P","r","o","j","e","c","t"," ","N","a","m","e","\n","F","o","o">>
ExTechStack ==
    <<"T","e","c","h"," ","S","t","a","c","k","\n","-"," ","G","o","\n","-",
      " ","D","o","c","k","e","r">>
ExProjectIdeas ==
    <<"P","r","o","j","e","c","t"," ","I","d","e","a","s","\n","-"," ","A",
      " ","d","a","s","h","b","o","a","r","d","\n","-"," ","A"," ","C","L",
      "I">>
ExTwoSummaries ==
    <<"S","u","m","m","a","r","y","\n","F","i","r","s","t","\n","\n","S",
      "u","m","m","a","r","y","\n","S","e","c","o","n","d">>
ExRandomHeader ==
    <<"R","a","n","d","o","m"," ","H","e","a","d","e","r","\n","s","o","m",
      "e"," ","t","e","x","t">>
ExNotes ==
    <<"P","r","o","j","e","c","t"," ","N","a","m","e","\n","F","o","o","\n",
      "\n","N","o","t","e","s","\n","n","o"," ","s","u","m","m","a","r","y",
      " ","y","e","t">>
StrFoo ==
    <<"F","o","o">>
StrGo ==
    <<"G","o">>
StrDocker ==
    <<"D","o","c","k","e","r">>
StrADashboard ==
    <<"A"," ","d","a","s","h","b","o","a","r","d">>
StrACLI ==
    <<"A"," ","C","L","I">>
StrSecond ==
    <<"S","e","c","o","n","d">>

Lines ==
    {<<>>, LnProjectName, LnTechStack, LnProjectPurpose, LnFolderStructure,
     LnSummary, LnSummaryOfProjectName, LnGo}

Examples ==
    {ExProjectNameFoo, ExTechStack, ExProjectIdeas, ExTwoSummaries,
     ExRandomHeader, ExNotes}

LineSeqs ==
    UNION {[1..n -> Lines] : n \in 1..MaxLines}

Inputs ==
    {join(ls, <<NL>>) : ls \in LineSeqs} \cup Examples

(***************************************************************************)
(* The autopilot.analyzeProject command                                    *)
(***************************************************************************)
Runs == 1..MaxRuns

\* the value of apiKey at line 101: the empty placeholder of the published
\* source, or the key a configured build carries there
ApiKeys == {<<>>, <<"s","k">>}

\* replies the remote service may put in choices[0].message.content
Replies == {ExProjectNameFoo, ExTwoSummaries, ExRandomHeader}

\* content: null, which is not a string
Null == <<"null">>

\* what response.json() and data.choices[0].message.content can yield
Bodies ==
    {[json |-> FALSE, choices |-> FALSE, content |-> Null],
     [json |-> TRUE, choices |-> FALSE, content |-> Null],
     [json |-> TRUE, choices |-> TRUE, content |-> Null]}
    \cup {[json |-> TRUE, choices |-> TRUE, content |-> c] : c \in Replies}

\* what fetch can resolve to
Responses ==
    {[ok |-> TRUE, statusText |-> "OK"],
     [ok |-> FALSE, statusText |-> "Unauthorized"],
     [ok |-> FALSE, statusText |-> "Internal Server Error"]}

NoResponse == [ok |-> FALSE, statusText |-> "none"]
NoBody == [json |-> FALSE, choices |-> FALSE, content |-> <<"none">>]
NoError == [message |-> <<>>]
NoAnalysis == [absent |-> TRUE]
NoPanel == [absent |-> TRUE]

Error(msg) == [message |-> msg]

FsError == Error(<<"EACCES: permission denied">>)
NetworkError == Error(<<"request to https://api.deepseek.com failed">>)
SyntaxError == Error(<<"Unexpected token in JSON">>)
ReadTypeError == Error(<<"Cannot read properties of undefined">>)
KeyError ==
    Error(<<"DeepSeek API key not configured. Check extension settings.">>)
ApiError(statusText) ==
    Error(<<"API request failed: ", statusText>>)

StageOrder ==
    <<"scanner", "keyfiles", "service", "structurer", "presenter">>

IdleRun ==
    [pc |-> "idle", workspaceFolder |-> FALSE, progressStarted |-> FALSE,
     progress |-> <<>>, errorMessages |-> <<>>, rejection |-> NoError,
     posts |-> 0, response |-> NoResponse, body |-> NoBody,
     parseCalls |-> 0, showCalls |-> 0, stages |-> <<>>,
     analysis |-> NoAnalysis, panel |-> NoPanel]

\* line 27: the promise withProgress returns is neither awaited nor
\* returned, so the try block of the handler has ended when the task rejects
withProgressAwaited == FALSE

\* the task callback ends with error e: lines 48-50 when the rejection
\* reaches the catch block, an unhandled rejection otherwise
reject(rec, e) ==
    IF withProgressAwaited
    THEN [rec EXCEPT !.pc = "caught", !.rejection = e,
                     !.errorMessages =
                         Append(@, <<"Analysis failed: ">> \o e.message)]
    ELSE [rec EXCEPT !.pc = "rejected", !.rejection = e]

\* the handler without the return of line 23
onInvokeNoReturn(rec, wf) ==
    IF ~wf
    THEN [rec EXCEPT !.workspaceFolder = wf, !.pc = "scan",
                     !.progressStarted = TRUE,
                     !.errorMessages =
                         Append(@, <<"No workspace folder found!">>)]
    ELSE [rec EXCEPT !.workspaceFolder = wf, !.pc = "scan",
                     !.progressStarted = TRUE]

\* lines 20-31: the workspace check and the start of the progress task
onInvoke(rec, wf) ==
    IF ~wf
    THEN [rec EXCEPT !.workspaceFolder = wf, !.pc = "returned",
                     !.errorMessages =
                         Append(@, <<"No workspace folder found!">>)]
    ELSE [rec EXCEPT !.workspaceFolder = wf, !.pc = "scan",
                     !.progressStarted = TRUE]

analyzeProject(r) ==
    /\ run[r].pc = "idle"
    /\ \E wf \in BOOLEAN : run' = [run EXCEPT ![r] = onInvoke(@, wf)]
    /\ UNCHANGED <<apiKey, parseVars>>

\* lines 33-34 and 57-77: the walk of the directory tree ends or fails
getDirectoryStructure(r) ==
    /\ run[r].pc = "scan"
    /\ LET rec == [run[r] EXCEPT
                      !.progress = Append(@, "Scanning project structure..."),
                      !.stages = Append(@, "scanner")]
       IN  \E fails \in BOOLEAN :
               run' = [run EXCEPT ![r] =
                          IF fails THEN reject(rec, FsError)
                          ELSE [rec EXCEPT !.pc = "keyfiles"]]
    /\ UNCHANGED <<apiKey, parseVars>>

\* lines 37-38 and 80-96: the key files are read, or a read fails
identifyKeyFiles(r) ==
    /\ run[r].pc = "keyfiles"
    /\ LET rec == [run[r] EXCEPT
                      !.progress = Append(@, "Identifying key files..."),
                      !.stages = Append(@, "keyfiles")]
       IN  \E fails \in BOOLEAN :
               run' = [run EXCEPT ![r] =
                          IF fails THEN reject(rec, FsError)
                          ELSE [rec EXCEPT !.pc = "analyze"]]
    /\ UNCHANGED <<apiKey, parseVars>>

\* a key check that lets every key through
keyMissingNever(key) == FALSE

\* line 103: !apiKey
keyMissing(key) == key = <<>>

\* lines 41-42 and 99-134: the key check, then the POST
analyzeWithDeepSeek(r) ==
    /\ run[r].pc = "analyze"
    /\ LET rec == [run[r] EXCEPT
                      !.progress = Append(@, "Consulting DeepSeek AI..."),
                      !.stages = Append(@, "service")]
       IN  run' = [run EXCEPT ![r] =
                      IF keyMissing(apiKey) THEN reject(rec, KeyError)
                      ELSE [rec EXCEPT !.pc = "fetch", !.posts = @ + 1]]
    /\ UNCHANGED <<apiKey, parseVars>>

\* a response handler that reads the body whatever the status
onResponseIgnoreStatus(rec, resp) ==
    [rec EXCEPT !.response = resp, !.pc = "json"]

\* lines 136-138
onResponse(rec, resp) ==
    IF ~resp.ok
    THEN reject([rec EXCEPT !.response = resp], ApiError(resp.statusText))
    ELSE [rec EXCEPT !.response = resp, !.pc = "json"]

\* line 120: fetch settles, with a network failure or with a response
fetchResponse(r) ==
    /\ run[r].pc = "fetch"
    /\ \/ run' = [run EXCEPT ![r] = reject(@, NetworkError)]
       \/ \E resp \in Responses :
              run' = [run EXCEPT ![r] = onResponse(@, resp)]
    /\ UNCHANGED <<apiKey, parseVars>>

\* a body handler that hands on the default record without parsing
onBodySkipParse(rec, b) ==
    [rec EXCEPT !.body = b, !.analysis = ProjectAnalysis, !.pc = "show"]

\* lines 140-144: decode the body, read the content, parse it
onBody(rec, b) ==
    IF ~b.json THEN reject([rec EXCEPT !.body = b], SyntaxError)
    ELSE IF ~b.choices THEN reject([rec EXCEPT !.body = b], ReadTypeError)
    ELSE LET called == [rec EXCEPT !.body = b, !.parseCalls = @ + 1,
                                   !.stages = Append(@, "structurer")]
         IN  IF b.content = Null \/ parseAiResponse(b.content) = TypeError
             THEN reject(called, ReadTypeError)
             ELSE [called EXCEPT !.analysis = parseAiResponse(b.content),
                                 !.pc = "show"]

responseJson(r) ==
    /\ run[r].pc = "json"
    /\ \E b \in Bodies : run' = [run EXCEPT ![r] = onBody(@, b)]
    /\ UNCHANGED <<apiKey, parseVars>>

\* lines 45 and 180-222: the panel and what its HTML interpolates
showAnalysisResults(r) ==
    /\ run[r].pc = "show"
    /\ run' = [run EXCEPT ![r] =
                  [@ EXCEPT !.showCalls = @ + 1,
                            !.stages = Append(@, "presenter"),
                            !.panel =
                                [h1 |-> run[r].analysis.projectName,
                                 badges |-> run[r].analysis.techStack,
                                 li |-> run[r].analysis.projectIdeas,
                                 pre |-> run[r].analysis
                                            .folderStructureAnalysis,
                                 p |-> run[r].analysis.summary],
                            !.pc = "done"]]
    /\ UNCHANGED <<apiKey, parseVars>>

Init ==
    /\ apiKey \in ApiKeys
    /\ run = [r \in Runs |-> IdleRun]
    /\ rawText = <<>>
    /\ sections = <<>>
    /\ sidx = 0
    /\ result = ProjectAnalysis
    /\ ppc = "unused"

Next ==
    \E r \in Runs :
        \/ analyzeProject(r)
        \/ getDirectoryStructure(r)
        \/ identifyKeyFiles(r)
        \/ analyzeWithDeepSeek(r)
        \/ fetchResponse(r)
        \/ responseJson(r)
        \/ showAnalysisResults(r)

Spec == Init /\ [][Next]_vars

(***************************************************************************)
(* ParseSpec: parseAiResponse, one action per step of its body             *)
(***************************************************************************)
ParseInit ==
    /\ rawText \in Inputs
    /\ sections = <<>>
    /\ sidx = 0
    /\ result = ProjectAnalysis
    /\ ppc = "call"
    /\ apiKey = <<>>
    /\ run = [r \in Runs |-> IdleRun]

\* lines 150-158: the default record and the split into sections
ParseBegin ==
    /\ ppc = "call"
    /\ result' = ProjectAnalysis
    /\ sections' = splitSections(rawText)
    /\ sidx' = 0
    /\ ppc' = "loop"
    /\ UNCHANGED <<rawText, cmdVars>>

\* lines 159-174: one call of the forEach callback
ParseSection ==
    /\ ppc = "loop"
    /\ sidx < Len(sections)
    /\ LET r == forEachSection(result, sections[sidx + 1])
       IN  IF r = TypeError
           THEN /\ ppc' = "threw"
                /\ UNCHANGED <<result, sidx>>
           ELSE /\ result' = r
                /\ sidx' = sidx + 1
                /\ ppc' = "loop"
    /\ UNCHANGED <<rawText, sections, cmdVars>>

\* line 176
ParseReturn ==
    /\ ppc = "loop"
    /\ sidx = Len(sections)
    /\ ppc' = "returned"
    /\ UNCHANGED <<rawText, sections, sidx, result, cmdVars>>

ParseNext ==
    \/ ParseBegin
    \/ ParseSection
    \/ ParseReturn

ParseSpec == ParseInit /\ [][ParseNext]_vars
(***************************************************************************)
(* Properties of parseAiResponse, checked under ParseSpec                  *)
(***************************************************************************)
IsString(s) ==
    /\ DOMAIN s = 1..Len(s)
    /\ \A i \in DOMAIN s : Len(s[i]) = 1

IsStringList(a) ==
    /\ DOMAIN a = 1..Len(a)
    /\ \A i \in DOMAIN a : IsString(a[i])

\* the heading of a section: its text up to the first line break, lower-cased
headingOf(section) ==
    LET i == indexOf(section, <<NL>>)
    IN  toLowerCase(IF i = 0 THEN section ELSE SubSeq(section, 1, i - 1))

bodyLinesOf(section) ==
    slice1(split(section, <<NL>>))

hasKeyword(s) ==
    \E k \in Keywords : includes(s, k)

\* the heading-to-field rules, in priority order
Rules ==
    <<[field |-> "projectName", keywords |-> {KwProjectName}],
      [field |-> "techStack", keywords |-> {KwTechStack}],
      [field |-> "projectIdeas",
       keywords |-> {KwProjectPurpose, KwProjectIdeas}],
      [field |-> "folderStructureAnalysis", keywords |-> {KwFolderStructure}],
      [field |-> "summary", keywords |-> {KwSummary}]>>

ruleMatches(i, h) ==
    \E k \in Rules[i].keywords : includes(h, k)

\* the field of the first rule a heading matches, "none" without a match
selectedField(h) ==
    IF \E i \in DOMAIN Rules : ruleMatches(i, h)
    THEN Rules[CHOOSE i \in DOMAIN Rules :
                   /\ ruleMatches(i, h)
                   /\ \A j \in DOMAIN Rules : ruleMatches(j, h) => i <= j].field
    ELSE "none"

\* the sections of the input whose heading selects field f
selecting(f) ==
    {i \in 1..Len(sections) : selectedField(headingOf(sections[i])) = f}

lastOf(S) ==
    CHOOSE i \in S : \A j \in S : j <= i

\* the value the specification gives to field f from the body of a section
expectedValue(f, section) ==
    CASE f = "projectName" -> trim(join(bodyLinesOf(section), <<" ">>))
      [] f \in {"techStack", "projectIdeas"} ->
            [i \in 1..Len(bodyLinesOf(section)) |->
                trim(replaceMarker(bodyLinesOf(section)[i]))]
      [] f \in {"folderStructureAnalysis", "summary"} ->
            join(bodyLinesOf(section), <<NL>>)

\* C1: parseAiResponse is total over strings: it never raises, every step
\* of its loop can be taken, and the record it returns has all five fields
\* projectName, techStack, projectIdeas, folderStructureAnalysis, summary.
C1_Total ==
    /\ ppc # "threw"
    /\ ppc = "loop" => sidx <= Len(sections)
    /\ ppc = "returned" =>
          /\ DOMAIN result = Fields
          /\ IsString(result.projectName)
          /\ IsStringList(result.techStack)
          /\ IsStringList(result.projectIdeas)
          /\ IsString(result.folderStructureAnalysis)
          /\ IsString(result.summary)

\* a reply made only of line breaks has been parsed: its sections are the
\* empty string and a lone line break
C1_Witness ==
    /\ ppc = "returned"
    /\ rawText = <<NL, NL, NL>>
    /\ sections = << <<>>, <<NL>> >>
    /\ result = ProjectAnalysis

\* C4 as stated: an input without two consecutive line breaks yields the
\* default record.
C4_Original ==
    (ppc = "returned" /\ ~includes(rawText, <<NL, NL>>))
        => result = ProjectAnalysis

\* C4: an input without two consecutive line breaks whose first line,
\* lower-cased, contains none of the keywords yields the default record.
C4_Amended ==
    (/\ ppc = "returned"
     /\ ~includes(rawText, <<NL, NL>>)
     /\ ~hasKeyword(headingOf(rawText)))
        => result = ProjectAnalysis

\* a single section with an unrecognised heading and a body was parsed
C4_Witness ==
    /\ ppc = "returned"
    /\ rawText = ExRandomHeader
    /\ Len(sections) = 1
    /\ result = ProjectAnalysis

\* C5: every field of the returned record is determined by the last section
\* whose heading selects it (its default without one), without accumulation;
\* a last section without body lines leaves the empty string or sequence.
C5_LastWriteWins ==
    ppc = "returned" =>
        /\ sections = split(rawText, <<NL, NL>>)
        /\ \A f \in Fields :
              LET sel == selecting(f)
              IN  IF sel = {} THEN result[f] = ProjectAnalysis[f]
                  ELSE LET last == sections[lastOf(sel)]
                       IN  /\ result[f] = expectedValue(f, last)
                           /\ bodyLinesOf(last) = <<>> => result[f] = <<>>
        /\ rawText = ExTwoSummaries => result.summary = StrSecond

\* a field was selected by two sections with different values, or by a
\* later section without body after one with a body
C5_Witness ==
    /\ ppc = "returned"
    /\ \E f \in Fields :
          /\ Cardinality(selecting(f)) >= 2
          /\ \E i \in selecting(f) :
                /\ i # lastOf(selecting(f))
                /\ expectedValue(f, sections[i]) # <<>>
                /\ expectedValue(f, sections[i]) # result[f]

\* C6: the step for a section whose lower-cased heading contains no keyword
\* leaves the record unchanged and raises nothing, whatever its body holds.
C6_UnmatchedSectionIgnored ==
    [][(/\ ppc = "loop"
        /\ sidx < Len(sections)
        /\ ~hasKeyword(headingOf(sections[sidx + 1])))
          => (result' = result /\ ppc' # "threw")]_vars

\* a section with an unrecognised heading and a keyword in its body has been
\* visited after a field was set, and the record still holds that field only
C6_Witness ==
    /\ ppc = "loop"
    /\ sidx = 2
    /\ ~hasKeyword(headingOf(sections[2]))
    /\ \E i \in DOMAIN bodyLinesOf(sections[2]) :
          hasKeyword(toLowerCase(bodyLinesOf(sections[2])[i]))
    /\ result # ProjectAnalysis
    /\ result = forEachSection(ProjectAnalysis, sections[1])

\* C8: the step for a section changes no field but the one of the first
\* rule, in priority order, that its heading matches, and sets that one
\* from the body.
C8_OneFieldPerSection ==
    [][(ppc = "loop" /\ sidx < Len(sections) /\ ppc' = "loop")
          => \A f \in Fields :
                IF f = selectedField(headingOf(sections[sidx + 1]))
                THEN result'[f] = expectedValue(f, sections[sidx + 1])
                ELSE result'[f] = result[f]]_vars

\* a heading with keywords of two categories set the field of the higher one
C8_Witness ==
    /\ ppc = "loop"
    /\ sidx = 1
    /\ includes(headingOf(sections[1]), KwProjectName)
    /\ includes(headingOf(sections[1]), KwSummary)
    /\ bodyLinesOf(sections[1]) # <<>>
    /\ result.projectName # <<>>
    /\ result.summary = <<>>

(***************************************************************************)
(* Properties of the command, checked under Spec                           *)
(***************************************************************************)
Terminal(rec) ==
    rec.pc \in {"returned", "rejected", "caught", "done"}

IsPrefix(s, t) ==
    /\ Len(s) <= Len(t)
    /\ s = SubSeq(t, 1, Len(s))

\* C2: every error raised during a run yields exactly one error
\* notification.
C2_EveryErrorNotified ==
    \A r \in Runs :
        run[r].rejection # NoError => Len(run[r].errorMessages) = 1

\* C3: with an empty apiKey, analyzeWithDeepSeek ends with the configuration
\* error before any POST, and neither parseAiResponse nor
\* showAnalysisResults is reached.
C3_NoKeyNoRequest ==
    \A r \in Runs :
        apiKey = <<>> =>
            /\ run[r].posts = 0
            /\ run[r].pc \notin {"fetch", "json", "show", "done"}
            /\ run[r].parseCalls = 0
            /\ run[r].showCalls = 0
            /\ run[r].panel = NoPanel
            /\ (\E i \in DOMAIN run[r].stages : run[r].stages[i] = "service")
                  => /\ run[r].rejection = KeyError
                     /\ Terminal(run[r])

\* analyzeWithDeepSeek ran without a key
C3_Witness ==
    \E r \in Runs :
        /\ apiKey = <<>>
        /\ run[r].stages = <<"scanner", "keyfiles", "service">>
        /\ run[r].rejection = KeyError

\* C7: a response with a non-success status ends the run with one error
\* carrying the status text; the POST was issued once, the response is not
\* parsed and nothing is shown.  No run issues the POST twice.
C7_NonOkIsTerminal ==
    \A r \in Runs :
        /\ run[r].posts <= 1
        /\ (run[r].response # NoResponse /\ ~run[r].response.ok) =>
              /\ Terminal(run[r])
              /\ run[r].rejection = ApiError(run[r].response.statusText)
              /\ run[r].posts = 1
              /\ run[r].parseCalls = 0
              /\ run[r].showCalls = 0
              /\ run[r].analysis = NoAnalysis
              /\ run[r].panel = NoPanel

\* a run received a non-success status
C7_Witness ==
    \E r \in Runs :
        /\ run[r].response = [ok |-> FALSE, statusText |-> "Unauthorized"]
        /\ run[r].rejection = ApiError("Unauthorized")

C9_Order(rec) ==
    /\ IsPrefix(rec.stages, StageOrder)
    /\ rec.parseCalls <= 1
    /\ rec.parseCalls = 1 => (rec.response.ok /\ rec.body # NoBody)
    /\ rec.showCalls <= 1
    /\ rec.showCalls = 1 => (rec.parseCalls = 1 /\ rec.analysis # NoAnalysis)

C10_NoWorkspaceAborts ==
    \A r \in Runs :
        (run[r].pc # "idle" /\ ~run[r].workspaceFolder) =>
            /\ run[r].pc = "returned"
            /\ run[r].errorMessages = << <<"No workspace folder found!">> >>
            /\ ~run[r].progressStarted
            /\ run[r].progress = <<>>
            /\ run[r].stages = <<>>
            /\ run[r].posts = 0
            /\ run[r].parseCalls = 0
            /\ run[r].showCalls = 0
            /\ run[r].rejection = NoError

\* a run was invoked without a workspace folder
C10_Witness ==
    \E r \in Runs :
        /\ run[r].pc = "returned"
        /\ ~run[r].workspaceFolder
        /\ Len(run[r].errorMessages) = 1
====
